---- MODULE Spec2Model ----
(***************************************************************************)
(* The accessibility panel of js/accessibility.js (second module of the    *)
(* file, lines 183-728): the preference record, its persistence in         *)
(* localStorage, the effects applied to the document root, the rendered    *)
(* panel, the open/close protocol and the screen-reader narration.         *)
(***************************************************************************)
EXTENDS Integers, Sequences, FiniteSets, TLC

VARIABLES
  storage,       \* localStorage slot 'ep_a11y': NoItem, or the stored text
  storageFails,  \* localStorage.setItem throws (quota, disabled storage)
  prefs,         \* let prefs
  html,          \* document.documentElement: fontSize, data-contrast, classList
  readerActive,  \* let readerActive
  docListeners,  \* event listeners registered on document by enableReader
  hasSynth,      \* window.speechSynthesis exists
  synth,         \* utterance queue of window.speechSynthesis
  elems,         \* const elems = { fab, panel }: the displayed panel DOM
  panelOpen,     \* let panelOpen
  frames,        \* callbacks queued with requestAnimationFrame
  hasArea,       \* #notification-area exists
  areaText,      \* textContent of #notification-area
  cart,          \* .cart-count text and the aria-label of .btn-cart
  menu,          \* #main-nav is-open class, aria-expanded and aria-label of .btn-menu
  ev             \* the last event delivered to the page, and whether a handler ran

vars == <<storage, storageFails, prefs, html, readerActive, docListeners,
          hasSynth, synth, elems, panelOpen, frames, hasArea, areaText, cart, menu, ev>>

-----------------------------------------------------------------------------
(* Bounds of the model *)

\* stored fontScale values range over -MaxStoredScale..MaxStoredScale
MaxStoredScale == 3
\* the stored record found by the first page load holds at most MaxPartial fields
MaxPartial == 1
\* the elements of the page that receive focus and hover events
MaxTargets == 1

-----------------------------------------------------------------------------
(* Preference record, lines 202-210 *)

Fields == {"fontScale", "contrast", "spacing", "dyslexia", "highlightLinks",
           "bigCursor", "readerEnabled"}

\* insertion order of the keys of defaults, which JSON.stringify follows
KeyOrder == <<"fontScale", "contrast", "spacing", "dyslexia", "highlightLinks",
              "bigCursor", "readerEnabled">>

BoolFields == {"spacing", "dyslexia", "highlightLinks", "bigCursor", "readerEnabled"}

defaults ==
  [fontScale |-> 0, contrast |-> "normal", spacing |-> FALSE, dyslexia |-> FALSE,
   highlightLinks |-> FALSE, bigCursor |-> FALSE, readerEnabled |-> FALSE]

\* the four contrast modes of the panel, line 356-361
ContrastKeys == {"normal", "high", "dark", "invert"}

\* the documented range of fontScale, line 203
MinScale == -2
MaxScale == 2

-----------------------------------------------------------------------------
(* Text helpers: JavaScript's String(n), String(b) *)

Digit(d) == CASE d = 0 -> "0" [] d = 1 -> "1" [] d = 2 -> "2" [] d = 3 -> "3"
              [] d = 4 -> "4" [] d = 5 -> "5" [] d = 6 -> "6" [] d = 7 -> "7"
              [] d = 8 -> "8" [] d = 9 -> "9"

RECURSIVE NatStr(_)
NatStr(n) == IF n < 10 THEN Digit(n) ELSE NatStr(n \div 10) \o Digit(n % 10)

NumStr(n) == IF n < 0 THEN "-" \o NatStr(-n) ELSE NatStr(n)

BoolStr(b) == IF b THEN "true" ELSE "false"

-----------------------------------------------------------------------------
(* Persistence, lines 192-197.  The stored text is kept as the sequence of *)
(* its "key":token members; a text that JSON.parse rejects is Garbage.     *)

NoItem == [kind |-> "null", members |-> <<>>]
Garbage == [kind |-> "garbage", members |-> <<>>]

Quote(s) == "\"" \o s \o "\""

KnownStrings == ContrastKeys \cup {"sepia"}
KnownNumbers == (0 - MaxStoredScale - 1) .. (MaxStoredScale + 1)

\* JSON.stringify of one value of a field
JsonToken(k, v) ==
  IF k = "fontScale" THEN NumStr(v)
  ELSE IF k = "contrast" THEN Quote(v)
  ELSE BoolStr(v)

\* JSON.parse of one token
ParseToken(t) ==
  IF t = "true" THEN TRUE
  ELSE IF t = "false" THEN FALSE
  ELSE IF \E n \in KnownNumbers : NumStr(n) = t
       THEN CHOOSE n \in KnownNumbers : NumStr(n) = t
       ELSE CHOOSE s \in KnownStrings : Quote(s) = t

\* JSON.stringify(p) for an object holding the keys dom, in key order
RECURSIVE StringifyFrom(_, _, _)
StringifyFrom(p, dom, i) ==
  IF i > Len(KeyOrder) THEN <<>>
  ELSE (IF KeyOrder[i] \in dom
        THEN <<[key |-> KeyOrder[i], token |-> JsonToken(KeyOrder[i], p[KeyOrder[i]])]>>
        ELSE <<>>) \o StringifyFrom(p, dom, i + 1)

Stringify(p, dom) == [kind |-> "json", members |-> StringifyFrom(p, dom, 1)]

\* JSON.parse(text): the object as a function from its keys (a repeated key
\* keeps its last member)
LastMember(ms, k) ==
  CHOOSE i \in 1..Len(ms) : ms[i].key = k /\ \A j \in (i+1)..Len(ms) : ms[j].key # k

JsonParse(text) ==
  LET ms == text.members
      keys == {ms[i].key : i \in 1..Len(ms)}
  IN [k \in keys |-> ParseToken(ms[LastMember(ms, k)].token)]

EmptyObject == [k \in {} |-> FALSE]

\* a savePrefs that never writes the slot
savePrefsNever(p, slot, fails) == slot

\* a failing setItem that leaves a truncated text in the slot
savePrefsTruncates(p, slot, fails) == IF fails THEN Garbage ELSE Stringify(p, Fields)

\* function savePrefs(p): setItem inside try/catch
savePrefs(p, slot, fails) == IF fails THEN slot ELSE Stringify(p, Fields)

\* function loadPrefs(): JSON.parse(getItem) || {}, {} when parse throws
loadPrefs(slot) ==
  IF slot.kind = "json" THEN JsonParse(slot) ELSE EmptyObject

\* the arguments of Object.assign swapped: the defaults overwrite what was loaded
MergeDefaultsWin(base, loaded) == [k \in Fields |-> base[k]]

\* Object.assign({}, defaults, loaded), line 212
Merge(base, loaded) ==
  [k \in Fields |-> IF k \in DOMAIN loaded THEN loaded[k] ELSE base[k]]

-----------------------------------------------------------------------------
(* Effects on the document root, lines 218-243.  fontSize is kept in       *)
(* tenths of a rem: (1 + s * 0.1) + 'rem'.                                 *)

applyFontScale(h, s) == [h EXCEPT !.fontSize = 10 + s]

applyContrast(h, m) == [h EXCEPT !.contrast = m]

\* classList.toggle(name, force)
classToggle(classes, name, force) ==
  IF force THEN classes \cup {name} ELSE classes \ {name}

\* a spacing effect that rewrites the whole class list of the root
applySpacingClearsOthers(h, on) ==
  [h EXCEPT !.classList = IF on THEN {"a11y-spacing"} ELSE {}]

applySpacing(h, on) == [h EXCEPT !.classList = classToggle(@, "a11y-spacing", on)]

applyDyslexia(h, on) == [h EXCEPT !.classList = classToggle(@, "a11y-dyslexia", on)]

applyHighlightLinks(h, on) ==
  [h EXCEPT !.classList = classToggle(@, "a11y-highlight-links", on)]

applyBigCursor(h, on) == [h EXCEPT !.classList = classToggle(@, "a11y-big-cursor", on)]

\* an applyAll that leaves out applyBigCursor
applyAllSkipsCursor(h, p) ==
  applyHighlightLinks(
    applyDyslexia(
      applySpacing(
        applyContrast(
          applyFontScale(h, p.fontScale),
          p.contrast),
        p.spacing),
      p.dyslexia),
    p.highlightLinks)

applyAll(h, p) ==
  applyBigCursor(
    applyHighlightLinks(
      applyDyslexia(
        applySpacing(
          applyContrast(
            applyFontScale(h, p.fontScale),
            p.contrast),
          p.spacing),
        p.dyslexia),
      p.highlightLinks),
    p.bigCursor)

\* the root element of a freshly loaded page
FreshHtml == [fontSize |-> 10, contrast |-> "", classList |-> {}]

-----------------------------------------------------------------------------
(* Narration, lines 250-308 *)

Onboarding ==
  "Lector de pantalla activado. Pasa el cursor o navega con Tab para escuchar."

\* speechSynthesis.cancel() when the service exists
stopSpeech(q, has) == IF has THEN <<>> ELSE q

\* a speak that queues the utterance behind the pending ones
speakQueues(q, has, active, text, force) ==
  IF ~active /\ ~force THEN q
  ELSE IF ~has THEN q
  ELSE Append(q, text)

\* a speak without the check of window.speechSynthesis
speakNoCheck(q, has, active, text, force) ==
  IF ~active /\ ~force THEN q
  ELSE Append(stopSpeech(q, has), text)

\* speak(text, force) with the readerActive of the moment of the call
speak(q, has, active, text, force) ==
  IF ~active /\ ~force THEN q
  ELSE IF ~has THEN q
  ELSE Append(stopSpeech(q, has), text)

\* an addEventListener that registers the same callback again
addEventListenerAgain(ls, l) == Append(ls, l)

\* document.addEventListener(type, fn): a listener already registered with
\* the same type and callback is not added again
addEventListener(ls, l) ==
  IF \E i \in 1..Len(ls) : ls[i] = l THEN ls ELSE Append(ls, l)

\* document.removeEventListener(type, fn)
removeEventListener(ls, l) == SelectSeq(ls, LAMBDA x : x # l)

FocusListener == [type |-> "focusin", fn |-> "readerFocus"]
HoverListener == [type |-> "mouseover", fn |-> "readerHover"]

\* an enableReader whose off branch forgets removeEventListener
enableReaderKeepsListeners(on, ls, q, has) ==
  IF on
  THEN [active |-> on,
        listeners |-> addEventListener(addEventListener(ls, FocusListener), HoverListener),
        synth |-> speak(q, has, on, Onboarding, TRUE)]
  ELSE [active |-> on, listeners |-> ls, synth |-> stopSpeech(q, has)]

\* enableReader(on): the new <<readerActive, docListeners, synth>>
enableReader(on, ls, q, has) ==
  IF on
  THEN [active |-> on,
        listeners |-> addEventListener(addEventListener(ls, FocusListener), HoverListener),
        synth |-> speak(q, has, on, Onboarding, TRUE)]
  ELSE [active |-> on,
        listeners |-> removeEventListener(removeEventListener(ls, FocusListener),
                                          HoverListener),
        synth |-> stopSpeech(q, has)]

-----------------------------------------------------------------------------
(* The elements of the page that receive focus and hover events.  An       *)
(* absent attribute is the empty string (the code tests attributes for     *)
(* truthiness); textContent is a sequence of characters.                   *)

NoElement == "none"

Node(tagName, id, parent, ariaLabel, labelledby, alt, for, placeholder, type, role, text) ==
  [tagName |-> tagName, id |-> id, parent |-> parent, ariaLabel |-> ariaLabel,
   labelledby |-> labelledby, alt |-> alt, for |-> for, placeholder |-> placeholder,
   type |-> type, role |-> role, text |-> text]

Document ==
  [ship  |-> Node("H2", "ship", NoElement, "", "", "", "", "", "", "",
                  <<" ", "E", "n", "v", "i", "o", "s", " ">>),
   cap   |-> Node("SPAN", "cap", NoElement, "", "", "", "", "", "", "",
                  <<"P", "a", "g", "o">>),
   pay   |-> Node("H3", "pay", NoElement, "", "cap", "", "", "", "", "",
                  <<"x">>),
   home  |-> Node("A", "home", NoElement, "Inicio", "", "", "", "", "", "",
                  <<"H", "o", "m", "e">>),
   buy   |-> Node("BUTTON", "buy", NoElement, "", "", "", "", "", "submit", "",
                  <<"O", "k">>),
   icon  |-> Node("SPAN", "icon", "buy", "", "", "", "", "", "", "",
                  <<>>),
   q     |-> Node("INPUT", "q", NoElement, "", "", "", "", "Buscar", "search", "",
                  <<>>)]

ElementIds == DOMAIN Document

\* the elements focus and hover events are delivered to: the first MaxTargets
\* of TargetOrder
TargetOrder == <<"ship", "icon", "home", "pay", "q">>

Targets == {TargetOrder[i] : i \in 1..MaxTargets}

\* String.prototype.toLowerCase on a tag name
toLowerCase(t) ==
  CASE t = "H1" -> "h1" [] t = "H2" -> "h2" [] t = "H3" -> "h3" [] t = "H4" -> "h4"
    [] t = "H5" -> "h5" [] t = "H6" -> "h6" [] t = "A" -> "a" [] t = "BUTTON" -> "button"
    [] t = "SELECT" -> "select" [] t = "INPUT" -> "input" [] t = "IMG" -> "img"
    [] t = "SPAN" -> "span" [] t = "P" -> "p" [] t = "LI" -> "li"
    [] t = "TEXTAREA" -> "textarea" [] t = "LABEL" -> "label" [] t = "DIV" -> "div"

RECURSIVE TrimStart(_)
TrimStart(cs) == IF cs # <<>> /\ Head(cs) = " " THEN TrimStart(Tail(cs)) ELSE cs

RECURSIVE TrimEnd(_)
TrimEnd(cs) ==
  IF cs # <<>> /\ cs[Len(cs)] = " " THEN TrimEnd(SubSeq(cs, 1, Len(cs) - 1)) ELSE cs

\* String.prototype.trim
trim(cs) == TrimEnd(TrimStart(cs))

\* String.prototype.slice(0, n)
slice(cs, n) == SubSeq(cs, 1, IF Len(cs) < n THEN Len(cs) ELSE n)

\* the characters as one string
RECURSIVE Text(_)
Text(cs) == IF cs = <<>> THEN "" ELSE Head(cs) \o Text(Tail(cs))

\* the longest text getLabel reads from an element, line 277
LabelMax == 180

\* a || b on strings
Or(a, b) == IF a # "" THEN a ELSE b

\* function getLabel(el)
getLabel(el) ==
  IF el.ariaLabel # "" THEN el.ariaLabel
  ELSE IF el.labelledby # "" /\ el.labelledby \in ElementIds
  THEN Text(trim(Document[el.labelledby].text))
  ELSE IF el.tagName = "IMG" THEN Or(el.alt, "imagen")
  ELSE IF el.tagName = "INPUT"
  THEN IF \E i \in ElementIds : Document[i].tagName = "LABEL" /\ Document[i].for = el.id
       THEN Text(trim(Document[CHOOSE i \in ElementIds :
                         Document[i].tagName = "LABEL" /\ Document[i].for = el.id].text))
       ELSE Or(el.placeholder, Or(el.type, "campo"))
  ELSE Or(Text(slice(trim(el.text), LabelMax)), toLowerCase(el.tagName))

\* the capture of /^h([1-6])$/, "" when the tag is no heading
HeadingLevel(tag) ==
  CASE tag = "h1" -> "1" [] tag = "h2" -> "2" [] tag = "h3" -> "3" [] tag = "h4" -> "4"
    [] tag = "h5" -> "5" [] tag = "h6" -> "6" [] OTHER -> ""

\* the prefix readerFocus puts before the label, lines 285-289 (the accent of
\* the button prefix is dropped: module text is ASCII)
Prefix(el) ==
  LET tag == toLowerCase(el.tagName)
  IN IF HeadingLevel(tag) # "" THEN "Encabezado nivel " \o HeadingLevel(tag) \o ": "
     ELSE IF tag = "a" THEN "Enlace: "
     ELSE IF tag = "button" THEN "Boton: "
     ELSE IF tag = "select" THEN "Selector: "
     ELSE IF tag = "input" THEN "Campo " \o el.type \o ": "
     ELSE ""

\* a readerFocus that speaks the label without its prefix
readerFocusNoPrefix(el, q, has, active) ==
  IF getLabel(el) = "" THEN q
  ELSE speak(q, has, active, getLabel(el), FALSE)

\* function readerFocus(e): the new utterance queue
readerFocus(el, q, has, active) ==
  IF getLabel(el) = "" THEN q
  ELSE speak(q, has, active, Prefix(el) \o getLabel(el), FALSE)

HoverTags == {"A", "BUTTON", "H1", "H2", "H3", "H4", "H5", "H6", "P", "LI", "IMG",
              "INPUT", "SELECT", "TEXTAREA"}

\* Element.closest(selector of line 293): the id of the nearest match, or NoElement
RECURSIVE closest(_)
closest(id) ==
  IF id = NoElement THEN NoElement
  ELSE IF Document[id].tagName \in HoverTags \/ Document[id].role # "" THEN id
  ELSE closest(Document[id].parent)

\* function readerHover(e): the new utterance queue
readerHover(target, q, has, active) ==
  IF closest(target) = NoElement THEN q
  ELSE speak(q, has, active, getLabel(Document[closest(target)]), FALSE)

-----------------------------------------------------------------------------
(* The panel, lines 315-479.  A control is kept by what it renders: its    *)
(* is-active class, its aria-pressed attribute, its label text, its        *)
(* disabled attribute.  The readout is kept as rendered (the white space   *)
(* of the template around it collapsed).                                   *)

\* function fontLabel(s)
fontLabel(s) ==
  IF s = 0 THEN "Normal (100%)"
  ELSE (IF s > 0 THEN "+" ELSE "") \o NumStr(s * 10) \o "% (" \o NumStr(100 + s * 10) \o "%)"

\* data-action of the five two-state toggles and the field each one shows
Toggles == {"reader", "spacing", "dyslexia", "links", "cursor"}

FieldOf(a) ==
  CASE a = "reader" -> "readerEnabled" [] a = "spacing" -> "spacing"
    [] a = "dyslexia" -> "dyslexia" [] a = "links" -> "highlightLinks"
    [] a = "cursor" -> "bigCursor"

\* function buildToggle(id, action, active)
buildToggle(active) ==
  [isActive |-> active, pressed |-> BoolStr(active),
   label |-> IF active THEN "Activado" ELSE "Desactivado"]

FabClosedLabel == "Abrir panel de accesibilidad"
FabOpenLabel == "Cerrar panel de accesibilidad"
CloseLabel == "Cerrar panel de accesibilidad"

\* function buildPanel(): the new fab and panel, neither with a click listener
buildPanel(p) ==
  [fab |-> [expanded |-> "false", label |-> FabClosedLabel, click |-> FALSE],
   panel |-> [hidden |-> TRUE, isOpen |-> FALSE, click |-> FALSE,
              transitionend |-> FALSE,
              toggles |-> [a \in Toggles |-> buildToggle(p[FieldOf(a)])],
              decDisabled |-> p.fontScale <= MinScale,
              incDisabled |-> p.fontScale >= MaxScale,
              fontVal |-> fontLabel(p.fontScale),
              contrast |-> [k \in ContrastKeys |->
                              [isActive |-> p.contrast = k,
                               pressed |-> BoolStr(p.contrast = k)]]]]

\* elems.fab.addEventListener('click', ...), lines 508 and 586
withFabListener(e) == [e EXCEPT !.fab.click = TRUE]

\* elems.panel.addEventListener('click', ...), line 514
withPanelListener(e) == [e EXCEPT !.panel.click = TRUE]

\* a toggle patch that forgets the .a11y-toggle-label text
patchToggleKeepsLabel(e, a, on) ==
  [e EXCEPT !.panel.toggles[a].isActive = on,
            !.panel.toggles[a].pressed = BoolStr(on)]

\* the three lines that patch a clicked toggle, e.g. 552-554
patchToggle(e, a, on) ==
  [e EXCEPT !.panel.toggles[a] =
     [isActive |-> on, pressed |-> BoolStr(on),
      label |-> IF on THEN "Activado" ELSE "Desactivado"]]

\* a contrast patch that marks the clicked button and leaves the others
patchContrastClickedOnly(e, m) ==
  [e EXCEPT !.panel.contrast[m] = [isActive |-> TRUE, pressed |-> "true"]]

\* the forEach over the contrast buttons, lines 544-548
patchContrast(e, m) ==
  [e EXCEPT !.panel.contrast =
     [k \in ContrastKeys |-> [isActive |-> k = m, pressed |-> BoolStr(k = m)]]]

\* function updateFontUI()
updateFontUI(e, p) ==
  [e EXCEPT !.panel.incDisabled = p.fontScale >= MaxScale,
            !.panel.decDisabled = p.fontScale <= MinScale,
            !.panel.fontVal = fontLabel(p.fontScale)]

\* the effect of one of the four style toggles
applyToggle(h, a, on) ==
  CASE a = "spacing" -> applySpacing(h, on)
    [] a = "dyslexia" -> applyDyslexia(h, on)
    [] a = "links" -> applyHighlightLinks(h, on)
    [] a = "cursor" -> applyBigCursor(h, on)

-----------------------------------------------------------------------------
(* Opening and closing, lines 487-506 *)

\* the button a focus() call of the panel code lands on, as getLabel sees it
ButtonNode(id, label) == Node("BUTTON", id, NoElement, label, "", "", "", "", "submit", "", <<>>)

\* the focusin listener, when registered, runs inside focus()
focusMoved(el, ls, q, has, active) ==
  IF \E i \in 1..Len(ls) : ls[i] = FocusListener
  THEN readerFocus(el, q, has, active)
  ELSE q

\* classList.add / remove of 'is-open'
setOpenClass(pn, on) == [pn EXCEPT !.isOpen = on]

\* requestAnimationFrame(cb).  One frame runs every queued callback in order.
\* The callbacks are idempotent (classList.add('is-open'), textContent =
\* message), so of two equal callbacks in one frame only the later one
\* matters: the queue keeps one copy, at the place of the latest request.
requestAnimationFrame(fr, cb) == Append(SelectSeq(fr, LAMBDA x : x # cb), cb)

\* an openPanel that forgets aria-expanded
openPanelNoExpanded(e, fr, ls, q, has, active) ==
  [elems |-> [e EXCEPT !.panel.hidden = FALSE,
                       !.fab.label = FabOpenLabel],
   frames |-> requestAnimationFrame(fr, [f |-> "addOpen", msg |-> ""]),
   synth |-> focusMoved(ButtonNode("a11y-close", CloseLabel), ls, q, has, active)]

\* function openPanel(): the new <<elems, frames, synth>>
openPanel(e, fr, ls, q, has, active) ==
  [elems |-> [e EXCEPT !.panel.hidden = FALSE,
                       !.fab.expanded = "true",
                       !.fab.label = FabOpenLabel],
   frames |-> requestAnimationFrame(fr, [f |-> "addOpen", msg |-> ""]),
   synth |-> focusMoved(ButtonNode("a11y-close", CloseLabel), ls, q, has, active)]

\* a closePanel that hides the panel at once instead of at transitionend
closePanelHidesAtOnce(e, ls, q, has, active, moves) ==
  [elems |-> [e EXCEPT !.panel = [setOpenClass(e.panel, FALSE) EXCEPT !.hidden = TRUE],
                       !.fab.expanded = "false",
                       !.fab.label = FabClosedLabel],
   synth |-> IF moves
             THEN focusMoved(ButtonNode("a11y-fab", FabClosedLabel), ls, q, has, active)
             ELSE q]

\* function closePanel(): the new <<elems, synth>>; moves tells whether
\* elems.fab.focus() moves the focus (the fab did not hold it already).
\* Every call registers one more transitionend listener h; they all run at
\* the same event, hide the panel and remove themselves, so the panel keeps
\* only whether any is registered.
closePanel(e, ls, q, has, active, moves) ==
  [elems |-> [e EXCEPT !.panel = [setOpenClass(e.panel, FALSE)
                                    EXCEPT !.transitionend = TRUE],
                       !.fab.expanded = "false",
                       !.fab.label = FabClosedLabel],
   synth |-> IF moves
             THEN focusMoved(ButtonNode("a11y-fab", FabClosedLabel), ls, q, has, active)
             ELSE q]

-----------------------------------------------------------------------------
(* Live region, lines 607-615 *)

ResetMessage == "Configuracion de accesibilidad restablecida."

\* an announce whose callback runs before the callbacks already queued
announceFirstWins(txt, fr, has, message) ==
  IF ~has THEN [areaText |-> txt, frames |-> fr]
  ELSE [areaText |-> "",
        frames |-> <<[f |-> "setText", msg |-> message]>>
                     \o SelectSeq(fr, LAMBDA x : x # [f |-> "setText", msg |-> message])]

\* function announce(message, isAlert) on the polite region:
\* the new <<areaText, frames>>
announce(txt, fr, has, message) ==
  IF ~has THEN [areaText |-> txt, frames |-> fr]
  ELSE [areaText |-> "",
        frames |-> requestAnimationFrame(fr, [f |-> "setText", msg |-> message])]

\* one animation frame runs the callbacks queued so far, in order
RECURSIVE runFrames(_, _, _)
runFrames(fr, e, txt) ==
  IF fr = <<>> THEN [elems |-> e, areaText |-> txt]
  ELSE IF Head(fr).f = "addOpen"
  THEN runFrames(Tail(fr), [e EXCEPT !.panel = setOpenClass(@, TRUE)], txt)
  ELSE runFrames(Tail(fr), e, Head(fr).msg)

-----------------------------------------------------------------------------
(* Cart, lines 28-52 and 620-636.  Both modules of the file register a     *)
(* click listener on every .btn-add-cart; the page is taken to hold        *)
(* .cart-count and .btn-cart.                                              *)

\* the largest count the cart is followed to
MaxCart == 4

\* product names found by btn.closest('article') ... || 'Producto'
Products == {"Producto", "Cable"}

\* the counter as the page ships it
InitCart == [count |-> "0", label |-> "Carrito de compras"]

\* parseInt(text) || 0
ParseInt(text) ==
  IF \E n \in 0..(MaxCart + 1) : NatStr(n) = text
  THEN CHOOSE n \in 0..(MaxCart + 1) : NatStr(n) = text
  ELSE 0

CartMessage(name) == name \o " agregado al carrito."

\* the counter update of one listener, lines 38-49 and 625-634 (the accent
\* of the label is dropped)
addToCart(c) ==
  LET next == ParseInt(c.count) + 1
  IN [count |-> NumStr(next),
      label |-> "Carrito de compras, " \o NumStr(next) \o " articulo"
                  \o (IF next # 1 THEN "s" ELSE "")]

-----------------------------------------------------------------------------
(* Navigation menu, lines 57-83 and 641-659.  Both modules of the file     *)
(* register a click listener on .btn-menu and a keydown listener on the    *)
(* document; the page is taken to hold .btn-menu and #main-nav, closed,    *)
(* and the first link of the nav is the link home of Document.  Accents    *)
(* are dropped from the labels.                                            *)

InitMenu == [isOpen |-> FALSE, expanded |-> "false", label |-> "Abrir menu de navegacion"]

\* the click listener of the first module, lines 61-72: the new <<menu, synth>>
menuClickFirst(mn, ls, q, has, active) ==
  LET isOpen == ~mn.isOpen
  IN [menu |-> [isOpen |-> isOpen, expanded |-> BoolStr(isOpen),
                label |-> IF isOpen THEN "Cerrar menu de navegacion"
                          ELSE "Abrir menu de navegacion"],
      synth |-> IF isOpen THEN focusMoved(Document["home"], ls, q, has, active) ELSE q]

\* the click listener of the second module, lines 646-651
menuClickSecond(mn, ls, q, has, active) ==
  LET isOpen == ~mn.isOpen
  IN [menu |-> [isOpen |-> isOpen, expanded |-> BoolStr(isOpen),
                label |-> IF isOpen THEN "Cerrar menu" ELSE "Abrir menu"],
      synth |-> IF isOpen THEN focusMoved(Document["home"], ls, q, has, active) ELSE q]

\* a keydown listener of the menu on Escape, lines 74-81 and 652-659
menuEscape(mn, ls, q, has, active) ==
  IF mn.isOpen
  THEN [menu |-> [isOpen |-> FALSE, expanded |-> "false",
                  label |-> "Abrir menu de navegacion"],
        synth |-> focusMoved(ButtonNode("btn-menu", "Abrir menu de navegacion"), ls, q, has,
                            active)]
  ELSE [menu |-> mn, synth |-> q]

-----------------------------------------------------------------------------
(* Page load: the top-level statements of the module, lines 212, 245, 310, *)
(* 484-514.                                                                *)

\* ev tells what the latest event was: "load", the page load; "dispatch", a
\* panel action the click handler carried through to savePrefs; "noop", a font
\* step the handler returned from at a bound; "reset"; "dead", a click on a
\* control of a panel that has no click listener; "unheard", a focus or hover
\* event while no narration listener is registered; "step", any other event
\* (fab, Escape, close control, narrated focus and hover, timers); "cart", a
\* click on an add-to-cart button; "menu", a click on the menu button.
Outcomes == {"load", "dispatch", "noop", "reset", "dead", "unheard", "step", "cart",
             "menu"}

\* the records a stored text may hold
StoredRecords ==
  [fontScale : (0 - MaxStoredScale)..MaxStoredScale, contrast : KnownStrings,
   spacing : BOOLEAN, dyslexia : BOOLEAN, highlightLinks : BOOLEAN,
   bigCursor : BOOLEAN, readerEnabled : BOOLEAN]

ValidRecords ==
  {r \in StoredRecords : r.fontScale \in MinScale..MaxScale /\ r.contrast \in ContrastKeys}

StoredDomains == {d \in SUBSET Fields : Cardinality(d) <= MaxPartial}

\* what localStorage may hold when the page loads
StoredTexts(records) ==
  UNION {{Stringify(r, d) : r \in {x \in records : \A k \in Fields \ d : x[k] = defaults[k]}}
         : d \in StoredDomains}

AnyStorage == {NoItem, Garbage} \cup StoredTexts(StoredRecords)

ValidStorage == {NoItem, Garbage} \cup StoredTexts(ValidRecords)

\* a page load without line 310: narration is not started from the record
LoadedReaderOff(slot, has) ==
  LET p == Merge(defaults, loadPrefs(slot))
  IN [prefs |-> p,
      html |-> applyAll(FreshHtml, p),
      readerActive |-> FALSE,
      docListeners |-> <<>>,
      synth |-> <<>>,
      elems |-> withPanelListener(withFabListener(buildPanel(p)))]

\* the state the top-level statements leave, given the slot and the service
Loaded(slot, has) ==
  LET p == Merge(defaults, loadPrefs(slot))
      r == IF p.readerEnabled
           THEN enableReader(TRUE, <<>>, <<>>, has)
           ELSE [active |-> FALSE, listeners |-> <<>>, synth |-> <<>>]
  IN [prefs |-> p,
      html |-> applyAll(FreshHtml, p),
      readerActive |-> r.active,
      docListeners |-> r.listeners,
      synth |-> r.synth,
      elems |-> withPanelListener(withFabListener(buildPanel(p)))]

\* the page right after its load: the slot, whether setItem throws, whether
\* the speech service and the polite region exist
InitOf(slots, failing, synths, areas) ==
  /\ storage \in slots
  /\ storageFails \in failing
  /\ hasSynth \in synths
  /\ hasArea \in areas
  /\ prefs = Loaded(storage, hasSynth).prefs
  /\ html = Loaded(storage, hasSynth).html
  /\ readerActive = Loaded(storage, hasSynth).readerActive
  /\ docListeners = Loaded(storage, hasSynth).docListeners
  /\ synth = Loaded(storage, hasSynth).synth
  /\ elems = Loaded(storage, hasSynth).elems
  /\ panelOpen = FALSE
  /\ frames = <<>>
  /\ areaText = ""
  /\ cart = InitCart
  /\ menu = InitMenu
  /\ ev = "load"

\* working storage, speech service and polite region present
InitWith(slots) == InitOf(slots, {FALSE}, {TRUE}, {TRUE})

Init == InitWith(AnyStorage)

InitValid == InitWith(ValidStorage)

\* the visitor reloads the page: the module runs again over the stored slot
Reload ==
  LET l == Loaded(storage, hasSynth)
  IN /\ prefs' = l.prefs
     /\ html' = l.html
     /\ readerActive' = l.readerActive
     /\ docListeners' = l.docListeners
     /\ synth' = l.synth
     /\ elems' = l.elems
     /\ panelOpen' = FALSE
     /\ frames' = <<>>
     /\ areaText' = ""
     /\ cart' = InitCart
     /\ menu' = InitMenu
     /\ ev' = "load"
     /\ UNCHANGED <<storage, storageFails, hasSynth, hasArea>>

-----------------------------------------------------------------------------
(* Panel open / close events, lines 508-509 and 518 *)

\* a click on the floating button
ClickFab ==
  /\ elems.fab.click
  /\ IF panelOpen
     THEN /\ \E moves \in BOOLEAN :
            LET c == closePanel(elems, docListeners, synth, hasSynth, readerActive, moves)
            IN /\ elems' = c.elems
               /\ synth' = c.synth
               /\ panelOpen' = FALSE
               /\ UNCHANGED frames
     ELSE LET o == openPanel(elems, frames, docListeners, synth, hasSynth, readerActive)
          IN /\ elems' = o.elems
             /\ frames' = o.frames
             /\ synth' = o.synth
             /\ panelOpen' = TRUE
  /\ ev' = "step"
  /\ UNCHANGED <<storage, storageFails, prefs, html, readerActive, docListeners,
                 hasSynth, hasArea, cart, menu, areaText>>

\* the Escape key, anywhere on the page: the keydown listeners of the document
\* run in the order of their registration, lines 74, 509 and 652
KeyEscape ==
  LET m1 == menuEscape(menu, docListeners, synth, hasSynth, readerActive)
  IN /\ IF panelOpen
        THEN /\ \E moves \in BOOLEAN :
               LET c == closePanel(elems, docListeners, m1.synth, hasSynth, readerActive,
                                   moves)
                   m2 == menuEscape(m1.menu, docListeners, c.synth, hasSynth, readerActive)
               IN /\ elems' = c.elems
                  /\ synth' = m2.synth
                  /\ menu' = m2.menu
                  /\ panelOpen' = FALSE
        ELSE LET m2 == menuEscape(m1.menu, docListeners, m1.synth, hasSynth, readerActive)
             IN /\ synth' = m2.synth
                /\ menu' = m2.menu
                /\ UNCHANGED <<elems, panelOpen>>
     /\ ev' = "step"
     /\ UNCHANGED <<storage, storageFails, prefs, html, readerActive, docListeners,
                    hasSynth, frames, hasArea, cart, areaText>>

\* a click reaches a control of the displayed panel only while it is rendered
Clickable == ~elems.panel.hidden

\* a click no listener handles
Unhandled ==
  /\ ev' = "dead"
  /\ UNCHANGED <<storage, storageFails, prefs, html, readerActive, docListeners,
                 hasSynth, synth, elems, panelOpen, frames, hasArea, cart, menu, areaText>>

\* a click on the close control of the displayed panel
ClickClose ==
  /\ Clickable
  /\ IF elems.panel.click
     THEN /\ LET c == closePanel(elems, docListeners, synth, hasSynth, readerActive, TRUE)
             IN /\ elems' = c.elems
                /\ synth' = c.synth
                /\ panelOpen' = FALSE
          /\ ev' = "step"
          /\ UNCHANGED <<storage, storageFails, prefs, html, readerActive, docListeners,
                         hasSynth, frames, hasArea, cart, menu, areaText>>
     ELSE Unhandled

-----------------------------------------------------------------------------
(* The delegated click handler of the panel, lines 514-593 *)

\* action === 'reader'
ClickReader ==
  /\ Clickable
  /\ IF elems.panel.click
     THEN LET p == [prefs EXCEPT !.readerEnabled = ~@]
              r == enableReader(p.readerEnabled, docListeners, synth, hasSynth)
          IN /\ prefs' = p
             /\ elems' = patchToggle(elems, "reader", p.readerEnabled)
             /\ readerActive' = r.active
             /\ docListeners' = r.listeners
             /\ synth' = r.synth
             /\ storage' = savePrefs(p, storage, storageFails)
             /\ ev' = "dispatch"
             /\ UNCHANGED <<storageFails, html, hasSynth, panelOpen, frames, hasArea, cart, menu,
                            areaText>>
     ELSE Unhandled

\* action === 'font-inc'
ClickFontInc ==
  /\ Clickable
  /\ IF elems.panel.click
     THEN IF prefs.fontScale >= MaxScale
          THEN /\ ev' = "noop"
               /\ UNCHANGED <<storage, storageFails, prefs, html, readerActive,
                              docListeners, hasSynth, synth, elems, panelOpen, frames,
                              hasArea, cart, menu, areaText>>
          ELSE LET p == [prefs EXCEPT !.fontScale = @ + 1]
               IN /\ prefs' = p
                  /\ html' = applyFontScale(html, p.fontScale)
                  /\ elems' = updateFontUI(elems, p)
                  /\ storage' = savePrefs(p, storage, storageFails)
                  /\ ev' = "dispatch"
                  /\ UNCHANGED <<storageFails, readerActive, docListeners, hasSynth,
                                 synth, panelOpen, frames, hasArea, cart, menu, areaText>>
     ELSE Unhandled

\* action === 'font-dec'
ClickFontDec ==
  /\ Clickable
  /\ IF elems.panel.click
     THEN IF prefs.fontScale <= MinScale
          THEN /\ ev' = "noop"
               /\ UNCHANGED <<storage, storageFails, prefs, html, readerActive,
                              docListeners, hasSynth, synth, elems, panelOpen, frames,
                              hasArea, cart, menu, areaText>>
          ELSE LET p == [prefs EXCEPT !.fontScale = @ - 1]
               IN /\ prefs' = p
                  /\ html' = applyFontScale(html, p.fontScale)
                  /\ elems' = updateFontUI(elems, p)
                  /\ storage' = savePrefs(p, storage, storageFails)
                  /\ ev' = "dispatch"
                  /\ UNCHANGED <<storageFails, readerActive, docListeners, hasSynth,
                                 synth, panelOpen, frames, hasArea, cart, menu, areaText>>
     ELSE Unhandled

\* action === 'contrast', on the button whose data-value is m
ClickContrast(m) ==
  /\ Clickable
  /\ IF elems.panel.click
     THEN LET p == [prefs EXCEPT !.contrast = m]
          IN /\ prefs' = p
             /\ html' = applyContrast(html, p.contrast)
             /\ elems' = patchContrast(elems, p.contrast)
             /\ storage' = savePrefs(p, storage, storageFails)
             /\ ev' = "dispatch"
             /\ UNCHANGED <<storageFails, readerActive, docListeners, hasSynth, synth,
                            panelOpen, frames, hasArea, cart, menu, areaText>>
     ELSE Unhandled

\* action === 'spacing', 'dyslexia', 'links', 'cursor'
ClickToggle(a) ==
  /\ Clickable
  /\ IF elems.panel.click
     THEN LET p == [prefs EXCEPT ![FieldOf(a)] = ~@]
          IN /\ prefs' = p
             /\ elems' = patchToggle(elems, a, p[FieldOf(a)])
             /\ html' = applyToggle(html, a, p[FieldOf(a)])
             /\ storage' = savePrefs(p, storage, storageFails)
             /\ ev' = "dispatch"
             /\ UNCHANGED <<storageFails, readerActive, docListeners, hasSynth, synth,
                            panelOpen, frames, hasArea, cart, menu, areaText>>
     ELSE Unhandled

\* action === 'reset'
ClickReset ==
  /\ Clickable
  /\ IF elems.panel.click
     THEN /\ LET p == defaults
                 r == enableReader(FALSE, docListeners, synth, hasSynth)
                 n == announce(areaText, frames, hasArea, ResetMessage)
             IN /\ prefs' = p
                /\ readerActive' = r.active
                /\ docListeners' = r.listeners
                /\ synth' = r.synth
                /\ html' = applyAll(html, p)
                /\ storage' = savePrefs(p, storage, storageFails)
                /\ elems' = withFabListener(buildPanel(p))
                /\ panelOpen' = FALSE
                /\ areaText' = n.areaText
                /\ frames' = n.frames
                /\ ev' = "reset"
                /\ UNCHANGED <<storageFails, hasSynth, hasArea, cart, menu>>
     ELSE Unhandled

\* the values of data-action the handler dispatches on, line 520
DataActions ==
  {"reader", "font-inc", "font-dec", "contrast", "spacing", "dyslexia", "links",
   "cursor", "reset"}

\* a handler that writes the slot before it changes the record
HandlerStepsPersistFirst(action) == <<"persist", "mutate", "effect", "patch">>

\* the statements of each branch of the handler, in the order of the code:
\* "mutate" assigns to prefs, "effect" calls an apply function or
\* enableReader, "patch" writes the controls of the panel (or rebuilds it),
\* "persist" calls savePrefs
HandlerSteps(action) ==
  CASE action \in {"font-inc", "font-dec", "contrast"} ->
         <<"mutate", "effect", "patch", "persist">>
    [] action \in Toggles ->
         <<"mutate", "patch", "effect", "persist">>
    [] action = "reset" ->
         <<"mutate", "effect", "persist", "patch">>

\* the step is a click the handler dispatched as data-action action and
\* carried through
Dispatched(action) ==
  CASE action = "reader" -> ClickReader /\ ev' = "dispatch"
    [] action = "font-inc" -> ClickFontInc /\ ev' = "dispatch"
    [] action = "font-dec" -> ClickFontDec /\ ev' = "dispatch"
    [] action = "contrast" -> (\E m \in ContrastKeys : ClickContrast(m)) /\ ev' = "dispatch"
    [] action \in Toggles \ {"reader"} -> ClickToggle(action) /\ ev' = "dispatch"
    [] action = "reset" -> ClickReset /\ ev' = "reset"

-----------------------------------------------------------------------------
(* Events of the platform *)

\* focus lands on an element of the page
Focus(t) ==
  /\ synth' = focusMoved(Document[t], docListeners, synth, hasSynth, readerActive)
  /\ ev' = IF \E i \in 1..Len(docListeners) : docListeners[i] = FocusListener
           THEN "step" ELSE "unheard"
  /\ UNCHANGED <<storage, storageFails, prefs, html, readerActive, docListeners,
                 hasSynth, elems, panelOpen, frames, hasArea, cart, menu, areaText>>

\* the pointer enters an element of the page
Hover(t) ==
  /\ synth' = IF \E i \in 1..Len(docListeners) : docListeners[i] = HoverListener
              THEN readerHover(t, synth, hasSynth, readerActive)
              ELSE synth
  /\ ev' = IF \E i \in 1..Len(docListeners) : docListeners[i] = HoverListener
           THEN "step" ELSE "unheard"
  /\ UNCHANGED <<storage, storageFails, prefs, html, readerActive, docListeners,
                 hasSynth, elems, panelOpen, frames, hasArea, cart, menu, areaText>>

\* the speech service finishes the utterance it is speaking
SpeechEnd ==
  /\ synth # <<>>
  /\ synth' = Tail(synth)
  /\ ev' = "step"
  /\ UNCHANGED <<storage, storageFails, prefs, html, readerActive, docListeners,
                 hasSynth, elems, panelOpen, frames, hasArea, cart, menu, areaText>>

\* an animation frame: the callbacks queued with requestAnimationFrame run
Frame ==
  /\ frames # <<>>
  /\ elems' = runFrames(frames, elems, areaText).elems
  /\ areaText' = runFrames(frames, elems, areaText).areaText
  /\ frames' = <<>>
  /\ ev' = "step"
  /\ UNCHANGED <<storage, storageFails, prefs, html, readerActive, docListeners,
                 hasSynth, synth, panelOpen, hasArea, cart, menu>>

\* a closing listener that also removes the stored item
TransitionEndDropsSlot ==
  /\ ~elems.panel.hidden
  /\ elems' = [elems EXCEPT !.panel.hidden = IF elems.panel.transitionend THEN TRUE ELSE @,
                            !.panel.transitionend = FALSE]
  /\ storage' = NoItem
  /\ ev' = "step"
  /\ UNCHANGED <<storageFails, prefs, html, readerActive, docListeners,
                 hasSynth, synth, panelOpen, frames, hasArea, cart, menu, areaText>>

\* a transitionend event reaches the displayed panel (from its own transition
\* or, bubbling, from one of a control inside it; the style sheet that starts
\* them is not part of the module): every listener of closePanel hides the
\* panel and removes itself, lines 501-504
TransitionEnd ==
  /\ ~elems.panel.hidden
  /\ elems' = [elems EXCEPT !.panel.hidden = IF elems.panel.transitionend THEN TRUE ELSE @,
                            !.panel.transitionend = FALSE]
  /\ ev' = "step"
  /\ UNCHANGED <<storage, storageFails, prefs, html, readerActive, docListeners,
                 hasSynth, synth, panelOpen, frames, hasArea, cart, menu, areaText>>

\* a click on the .btn-add-cart of product name: the listener of the first
\* module runs, then the listener of the second; each calls its announce and
\* updates the counter
CartClick(name) ==
  /\ ParseInt(cart.count) + 2 <= MaxCart
  /\ LET a1 == announce(areaText, frames, hasArea, CartMessage(name))
         a2 == announce(a1.areaText, a1.frames, hasArea, CartMessage(name))
     IN /\ areaText' = a2.areaText
        /\ frames' = a2.frames
  /\ cart' = addToCart(addToCart(cart))
  /\ ev' = "cart"
  /\ UNCHANGED <<storage, storageFails, prefs, html, readerActive, docListeners,
                 hasSynth, synth, elems, panelOpen, hasArea, menu>>

\* a click on .btn-menu: the listener of the first module runs, then the
\* listener of the second
MenuClick ==
  LET m1 == menuClickFirst(menu, docListeners, synth, hasSynth, readerActive)
      m2 == menuClickSecond(m1.menu, docListeners, m1.synth, hasSynth, readerActive)
  IN /\ menu' = m2.menu
     /\ synth' = m2.synth
     /\ ev' = "menu"
     /\ UNCHANGED <<storage, storageFails, prefs, html, readerActive, docListeners,
                    hasSynth, elems, panelOpen, frames, hasArea, areaText, cart>>

Next ==
  \/ Reload
  \/ ClickFab
  \/ KeyEscape
  \/ ClickClose
  \/ ClickReader
  \/ ClickFontInc
  \/ ClickFontDec
  \/ \E m \in ContrastKeys : ClickContrast(m)
  \/ \E a \in Toggles \ {"reader"} : ClickToggle(a)
  \/ ClickReset
  \/ \E t \in Targets : Focus(t)
  \/ \E t \in Targets : Hover(t)
  \/ SpeechEnd
  \/ Frame
  \/ TransitionEnd

Spec == Init /\ [][Next]_vars

\* the page is first loaded over an absent, unparseable or valid stored record
SpecValid == InitValid /\ [][Next]_vars

\* the storefront page: the cart buttons and the live region, next to the
\* panel's open, close and reset
InitStore == InitWith({NoItem})

NextStore ==
  \/ \E name \in Products : CartClick(name)
  \/ MenuClick
  \/ KeyEscape
  \/ Frame
  \/ ClickFab
  \/ ClickReset
  \/ TransitionEnd
  \/ Reload

SpecStore == InitStore /\ [][NextStore]_vars

\* the open / close protocol of the panel with narration, over an empty slot
\* and over a stored readerEnabled
InitPanel ==
  InitWith({NoItem, Stringify([defaults EXCEPT !.readerEnabled = TRUE], {"readerEnabled"})})

NextPanel ==
  \/ Reload
  \/ ClickFab
  \/ KeyEscape
  \/ ClickClose
  \/ ClickReader
  \/ ClickReset
  \/ \E t \in Targets : Focus(t)
  \/ SpeechEnd
  \/ Frame
  \/ TransitionEnd

SpecPanel == InitPanel /\ [][NextPanel]_vars

\* animation frames run and transitions of the rendered panel end
SpecPanelFair == SpecPanel /\ WF_vars(Frame) /\ WF_vars(TransitionEnd)

\* the panel on a page whose setItem throws (quota, private mode): the slot
\* is absent, unparseable or holds a record written earlier
InitFailing ==
  InitOf({NoItem, Garbage, Stringify([defaults EXCEPT !.contrast = "dark"], {"contrast"})},
         {TRUE}, {TRUE}, {TRUE})

NextFailing ==
  \/ Reload
  \/ ClickFab
  \/ ClickReader
  \/ ClickFontInc
  \/ ClickFontDec
  \/ \E m \in ContrastKeys : ClickContrast(m)
  \/ \E a \in Toggles \ {"reader"} : ClickToggle(a)
  \/ ClickReset

SpecFailing == InitFailing /\ [][NextFailing]_vars

\* the panel in a browser without window.speechSynthesis, over an empty slot
\* and over a stored readerEnabled
InitMute ==
  InitOf({NoItem, Stringify([defaults EXCEPT !.readerEnabled = TRUE], {"readerEnabled"})},
         {FALSE}, {FALSE}, {TRUE})

NextMute ==
  \/ Reload
  \/ ClickFab
  \/ KeyEscape
  \/ ClickReader
  \/ ClickFontInc
  \/ \E a \in Toggles \ {"reader"} : ClickToggle(a)
  \/ ClickReset
  \/ \E t \in Targets : Focus(t)
  \/ \E t \in Targets : Hover(t)

SpecMute == InitMute /\ [][NextMute]_vars

\* the storefront page with and without #notification-area; animation
\* frames run
InitLive == InitOf({NoItem}, {FALSE}, {TRUE}, BOOLEAN)

SpecLive == InitLive /\ [][NextStore]_vars /\ WF_vars(Frame)

-----------------------------------------------------------------------------
(* Properties *)

\* C1: from an absent, unparseable or valid stored record, at page load and
\* after every event (so after each dispatch of the click handler) every
\* two-state control of the displayed panel shows the value of its field:
\* is-active and aria-pressed equal the field, the label reads Activado when
\* the field is true and Desactivado when it is false.
C1_TogglesShowRecord ==
  \A a \in Toggles :
    /\ elems.panel.toggles[a].isActive = prefs[FieldOf(a)]
    /\ elems.panel.toggles[a].pressed = (IF prefs[FieldOf(a)] THEN "true" ELSE "false")
    /\ elems.panel.toggles[a].label =
         (IF prefs[FieldOf(a)] THEN "Activado" ELSE "Desactivado")

\* a dispatch has run after toggles, a contrast choice and a font step
C1_Witness ==
  /\ ev = "dispatch"
  /\ prefs.highlightLinks /\ prefs.readerEnabled /\ ~prefs.spacing
  /\ prefs.contrast = "dark" /\ prefs.fontScale = 1
  /\ elems.panel.toggles["links"].label = "Activado"
  /\ elems.panel.toggles["spacing"].label = "Desactivado"

\* C2: right after a reset is dispatched every field of the record is at its
\* default, the panel is closed (panelOpen false, the displayed panel hidden)
\* and narration is off: readerActive false, neither narration listener on
\* the document, no utterance queued or being spoken.
C2_ResetRestoresDefaults ==
  ev = "reset" =>
    /\ prefs = defaults
    /\ ~panelOpen
    /\ elems.panel.hidden
    /\ ~readerActive
    /\ \A i \in 1..Len(docListeners) : docListeners[i] \notin {FocusListener, HoverListener}
    /\ synth = <<>>

\* a reset dispatched on a panel opened so recently that the frame callback of
\* openPanel is still queued
C2_Witness ==
  /\ ev = "reset"
  /\ \E i \in 1..Len(frames) : frames[i].f = "addOpen"
  /\ storage = Stringify(defaults, Fields)
  /\ html.fontSize = 10 /\ html.classList = {}

\* C3: in every reachable state, whatever the slot held at page load,
\* fontScale is an integer of -2..2 and contrast is one of normal, high,
\* dark, invert.
C3_RecordInRange ==
  /\ prefs.fontScale \in MinScale..MaxScale
  /\ prefs.contrast \in ContrastKeys

\* C4: a font step the handler returns from without effect happens only at
\* fontScale = -2 (font-dec) or fontScale = 2 (font-inc) and changes neither
\* the record, the root font size, the rendered panel nor the slot; every
\* other font step changes fontScale by exactly +1 or -1.
C4_FontStepClamped ==
  [][/\ ev' = "noop" =>
          /\ prefs.fontScale \in {MinScale, MaxScale}
          /\ UNCHANGED <<prefs, html, elems, storage>>
     /\ (ev' = "dispatch" /\ prefs'.fontScale # prefs.fontScale) =>
          prefs'.fontScale - prefs.fontScale \in {-1, 1}]_vars

\* C5: at page load, after every dispatch and after every rebuild of the
\* panel the readout ends with the percentage 100 + 10 * fontScale, the
\* increment control is disabled exactly when fontScale = 2 and the decrement
\* control exactly when fontScale = -2; at fontScale 1 the readout is
\* "+10% (110%)", at 2 it is "+20% (120%)" with the increment control disabled.
C5_ReadoutAndStepper ==
  LET leads == {"Normal"} \cup {NumStr(10 * d) \o "%" : d \in KnownNumbers}
                 \cup {"+" \o NumStr(10 * d) \o "%" : d \in KnownNumbers}
      percent == " (" \o NumStr(100 + 10 * prefs.fontScale) \o "%)"
  IN /\ elems.panel.fontVal \in {l \o percent : l \in leads}
     /\ elems.panel.incDisabled <=> prefs.fontScale = MaxScale
     /\ elems.panel.decDisabled <=> prefs.fontScale = MinScale
     /\ prefs.fontScale = 1 => elems.panel.fontVal = "+10% (110%)"
     /\ prefs.fontScale = 2 => elems.panel.fontVal = "+20% (120%)"

\* C6: from an absent or unparseable slot or a stored record whose contrast is
\* one of the four modes, in every reachable state exactly one contrast button
\* of the displayed panel is marked active (is-active, aria-pressed "true"),
\* and it is the button of the record's contrast.
C6_OneContrastActive ==
  /\ Cardinality({k \in ContrastKeys : elems.panel.contrast[k].isActive}) = 1
  /\ Cardinality({k \in ContrastKeys : elems.panel.contrast[k].pressed = "true"}) = 1
  /\ elems.panel.contrast[prefs.contrast].isActive
  /\ elems.panel.contrast[prefs.contrast].pressed = "true"

\* a contrast button other than the default one was chosen and saved
C6_Witness ==
  /\ ev = "dispatch"
  /\ prefs.contrast = "invert"
  /\ elems.panel.contrast["invert"].isActive
  /\ ~elems.panel.contrast["normal"].isActive
  /\ storage.kind = "json" /\ JsonParse(storage)["contrast"] = "invert"

\* C7: a page load over the text savePrefs wrote for a record yields that
\* record; a page load over an absent or unparseable slot yields the defaults;
\* a page load over a stored record holding a subset of the fields yields the
\* stored value of each field it holds and the default of each field it lacks.
C7_RoundTrip ==
  [][ev' = "load" =>
       /\ storage = savePrefs(prefs, storage, FALSE) => prefs' = prefs
       /\ storage' \in {NoItem, Garbage} => prefs' = defaults
       /\ storage'.kind = "json" =>
            LET ms == storage'.members
                held == {ms[i].key : i \in 1..Len(ms)}
            IN /\ \A k \in Fields \ held : prefs'[k] = defaults[k]
               /\ \A i \in 1..Len(ms) :
                    ms[i].token = JsonToken(ms[i].key, prefs'[ms[i].key])]_vars

\* the page was loaded again over a saved record that differs from the
\* defaults in a number, a string and a boolean
C7_Witness ==
  /\ ev = "load"
  /\ Len(storage.members) = Cardinality(Fields)
  /\ prefs.fontScale = -2 /\ prefs.contrast = "high" /\ prefs.dyslexia

\* C8 as stated: after every completed dispatch, a font step at its bound
\* included, the slot holds the in-memory record.
C8_SlotEqualsRecord ==
  ev \in {"dispatch", "noop", "reset"} =>
    storage.kind = "json" /\ JsonParse(storage) = prefs

\* C8 amended: after every dispatch that runs to savePrefs (toggle, reader,
\* contrast, reset, a font step not at its bound) the slot holds the in-memory
\* record; after a font step at its bound, which returns before savePrefs,
\* the slot is as it was and merged over the defaults it yields the in-memory
\* record.
C8_SlotEqualsRecordWhenSaved ==
  /\ ev \in {"dispatch", "reset"} =>
       storage.kind = "json" /\ JsonParse(storage) = prefs
  /\ ev = "noop" => Merge(defaults, loadPrefs(storage)) = prefs

\* a font step at its bound over a slot that holds only a subset of the fields
C8_Witness ==
  /\ ev = "noop"
  /\ storage.kind = "json"
  /\ Len(storage.members) < Cardinality(Fields)
  /\ prefs.fontScale = MaxScale

\* C9: from any reachable state, enableReader(true) called twice in a row
\* leaves exactly one focusin and one mouseover listener on the document, and
\* enableReader(false) called twice in a row leaves none of them.
C9_EnableReaderIdempotent ==
  LET count(ls, l) == Cardinality({i \in 1..Len(ls) : ls[i] = l})
      on1 == enableReader(TRUE, docListeners, synth, hasSynth)
      on2 == enableReader(TRUE, on1.listeners, on1.synth, hasSynth)
      off1 == enableReader(FALSE, docListeners, synth, hasSynth)
      off2 == enableReader(FALSE, off1.listeners, off1.synth, hasSynth)
  IN /\ on2.active
     /\ count(on2.listeners, FocusListener) = 1
     /\ count(on2.listeners, HoverListener) = 1
     /\ Len(on2.listeners) = 2
     /\ ~off2.active
     /\ off2.listeners = <<>>
     /\ off2.synth = <<>>

\* narration was just switched on: both listeners are registered and the
\* onboarding utterance is queued when enableReader(true) is called again
C9_Witness ==
  /\ ev = "dispatch"
  /\ readerActive
  /\ Len(docListeners) = 2
  /\ synth = <<Onboarding>>

\* C10: whenever narration is off (after the reader toggle switched it off,
\* after a reset) no utterance is queued or being spoken, and no focus or
\* hover event queues one; while narration is on, focus on the level-2 heading
\* labelled Envios queues "Encabezado nivel 2: Envios", and focus on the
\* level-3 heading labelled Pago would queue "Encabezado nivel 3: Pago".
C10_SilentWhenOff ==
  [][/\ ~readerActive' => synth' = <<>>
     /\ ev' = "unheard" => synth' = <<>>
     /\ (readerActive /\ Focus("ship")) => synth' = <<"Encabezado nivel 2: Envios">>
     /\ readerActive =>
          readerFocus(Document["pay"], synth, hasSynth, readerActive)
            = <<"Encabezado nivel 3: Pago">>]_vars

\* a focus or hover event arrived while narration was off, after a dispatch
\* saved a record whose readerEnabled is false
C10_Witness ==
  /\ ev = "unheard"
  /\ ~readerActive
  /\ storage.kind = "json"
  /\ Len(storage.members) = Cardinality(Fields)
  /\ JsonParse(storage)["readerEnabled"] = FALSE

\* C11: the speech service never holds more than one utterance, and each
\* narration request leaves exactly its own utterance there, whatever was
\* pending: focus on the heading Envios leaves "Encabezado nivel 2: Envios",
\* the pointer over it leaves "Envios", switching narration on leaves the
\* onboarding text.
C11_LatestUtteranceOnly ==
  [][/\ Len(synth') <= 1
     /\ (readerActive /\ Focus("ship")) => synth' = <<"Encabezado nivel 2: Envios">>
     /\ (readerActive /\ Hover("ship")) => synth' = <<"Envios">>
     /\ (~readerActive /\ readerActive') => synth' = <<Onboarding>>]_vars

\* the hover request on the heading is the one pending, narration being on
\* (the onboarding utterance or an earlier request was superseded or ended)
C11_Witness ==
  /\ readerActive
  /\ ev = "step"
  /\ synth = <<"Envios">>

\* C12: when a click on an add-to-cart button makes the two listeners call
\* announce one after the other with the same message, the second call too
\* changes the text of the region to the empty string: the text it finds,
\* left by the first call, is not empty.  (Its later change to the message
\* presupposes this one.)
C12_SecondCallClears ==
  [][\A name \in Products :
       CartClick(name) =>
         announce(areaText, frames, hasArea, CartMessage(name)).areaText # ""]_vars

\* C13: while the panel is open, also after a reset, a click on the close
\* control of the displayed panel closes it and so does the Escape key; a
\* click on the floating button switches panelOpen.
C13_CloseControlsClose ==
  [][/\ (panelOpen /\ ClickClose) => ~panelOpen'
     /\ (panelOpen /\ KeyEscape) => ~panelOpen'
     /\ ClickFab => panelOpen' = ~panelOpen]_vars

\* C14: in every state, also after resets, a click on a two-state control of
\* the displayed panel flips its field of the record, leaves the style class
\* of the field on the root exactly when the field is true, shows the new
\* value on the control and writes the record to the slot.
C14_ToggleClickFlips ==
  [][/\ \A a \in Toggles \ {"reader"} :
          ClickToggle(a) =>
            /\ prefs'[FieldOf(a)] = ~prefs[FieldOf(a)]
            /\ applyToggle(html', a, TRUE) = html' <=> prefs'[FieldOf(a)]
            /\ elems'.panel.toggles[a].isActive = prefs'[FieldOf(a)]
            /\ storage'.kind = "json" /\ JsonParse(storage') = prefs'
     /\ ClickReader =>
          /\ prefs'.readerEnabled = ~prefs.readerEnabled
          /\ readerActive' = prefs'.readerEnabled
          /\ elems'.panel.toggles["reader"].isActive = prefs'.readerEnabled
          /\ storage'.kind = "json" /\ JsonParse(storage') = prefs']_vars

C16_OpenIsRevealed == panelOpen => ~elems.panel.hidden

\* C17: the displayed panel becomes hidden only when a transitionend event
\* is delivered to it (or when a reset or a page load puts a new, hidden
\* panel in its place), and a closed panel that is still rendered is hidden
\* later unless it is reopened, frames and transitions being delivered; this
\* also when closePanel ran before the frame callback of openPanel.
C17_HiddenAfterTransition ==
  /\ [][(~elems.panel.hidden /\ elems'.panel.hidden) =>
          (TransitionEnd \/ ev' \in {"reset", "load"})]_vars
  /\ (~panelOpen /\ ~elems.panel.hidden) ~> (elems.panel.hidden \/ panelOpen)

\* the panel was closed before the frame callback of its opening ran: the
\* callback put is-open on the closed panel, and a transitionend hid it
C17_Witness ==
  /\ ~panelOpen
  /\ elems.panel.hidden
  /\ elems.panel.isOpen
  /\ ev = "step"

\* C18: in every state, across page loads and resets, aria-expanded of the
\* floating button says whether panelOpen is true, and panelOpen is false
\* right after a page load whatever the slot holds.
C18_ExpandedIsOpenFlag ==
  /\ elems.fab.expanded = (IF panelOpen THEN "true" ELSE "false")
  /\ ev = "load" => ~panelOpen

\* the panel rebuilt by a reset (it has no click listener) was opened
C18_Witness ==
  /\ panelOpen
  /\ ~elems.panel.click
  /\ elems.fab.expanded = "true"

\* C19: in every state, from the page load on and also when the slot held
\* readerEnabled = true, readerActive equals the readerEnabled field of the
\* record, and the focusin and the mouseover listener are each registered
\* on the document exactly when readerActive is true.
C19_ReaderMirrorsRecord ==
  /\ readerActive = prefs.readerEnabled
  /\ (\E i \in 1..Len(docListeners) : docListeners[i] = FocusListener) <=> readerActive
  /\ (\E i \in 1..Len(docListeners) : docListeners[i] = HoverListener) <=> readerActive

\* a page load over a slot that holds readerEnabled = true
C19_Witness ==
  /\ ev = "load"
  /\ storage.kind = "json"
  /\ "readerEnabled" \in DOMAIN JsonParse(storage)
  /\ JsonParse(storage)["readerEnabled"] = TRUE
  /\ readerActive
  /\ Len(docListeners) = 2

\* C20: at page load and after every event (so after every dispatch) the
\* root carries the presentation of the current record: font size
\* 1 + 0.1 * fontScale rem (in tenths: 10 + fontScale), data-contrast equal to
\* contrast, and each of the four style classes exactly when its field is
\* true.
C20_RootShowsRecord ==
  /\ html.fontSize = 10 + prefs.fontScale
  /\ html.contrast = prefs.contrast
  /\ html.classList =
       {c \in {"a11y-spacing", "a11y-dyslexia", "a11y-highlight-links", "a11y-big-cursor"} :
          \/ c = "a11y-spacing" /\ prefs.spacing
          \/ c = "a11y-dyslexia" /\ prefs.dyslexia
          \/ c = "a11y-highlight-links" /\ prefs.highlightLinks
          \/ c = "a11y-big-cursor" /\ prefs.bigCursor}

\* a dispatch after two font steps, a contrast choice and the cursor toggle
C20_Witness ==
  /\ ev = "dispatch"
  /\ html.fontSize = 12
  /\ html.contrast = "high"
  /\ html.classList = {"a11y-big-cursor"}

\* C21: a dispatch of one of the four style toggles (spacing, dyslexia, links,
\* cursor) negates its own field, adds or removes its own class on the root
\* according to the new value and patches its own control; every other field
\* of the record, every other class of the root, the root font size, the
\* contrast marker, every other control of the panel, the narration state
\* (readerActive, the listeners, the speech queue) and the open state of the
\* panel are unchanged.
C21_ToggleIsLocal ==
  [][\A a \in Toggles \ {"reader"} :
       (ClickToggle(a) /\ ev' = "dispatch") =>
         LET f == FieldOf(a)
             c == CASE a = "spacing" -> "a11y-spacing"
                    [] a = "dyslexia" -> "a11y-dyslexia"
                    [] a = "links" -> "a11y-highlight-links"
                    [] a = "cursor" -> "a11y-big-cursor"
         IN /\ prefs'[f] = ~prefs[f]
            /\ \A g \in Fields \ {f} : prefs'[g] = prefs[g]
            /\ (c \in html'.classList) = prefs'[f]
            /\ html'.classList \ {c} = html.classList \ {c}
            /\ html'.fontSize = html.fontSize
            /\ html'.contrast = html.contrast
            /\ elems'.panel.toggles[a].isActive = prefs'[f]
            /\ \A b \in Toggles \ {a} :
                 elems'.panel.toggles[b] = elems.panel.toggles[b]
            /\ elems' = [elems EXCEPT !.panel.toggles[a] = elems'.panel.toggles[a]]
            /\ readerActive' = readerActive
            /\ docListeners' = docListeners
            /\ synth' = synth
            /\ panelOpen' = panelOpen]_vars

\* all four style classes are on the root after a toggle dispatch, next to a
\* contrast marker and a font step that the toggles did not disturb
C21_Witness ==
  /\ ev = "dispatch"
  /\ html.classList = {"a11y-spacing", "a11y-dyslexia", "a11y-highlight-links",
                       "a11y-big-cursor"}
  /\ html.contrast = "dark"
  /\ html.fontSize = 11
  /\ prefs.spacing /\ prefs.dyslexia /\ prefs.highlightLinks /\ prefs.bigCursor

\* C22: while setItem throws, every dispatch (toggle, reader, contrast, font
\* step, reset) still mutates the record in memory, applies the effect to the
\* root and leaves the controls showing the new record, and the slot keeps
\* the text it held before, on that step and on every other step.
C22_FailedWriteKeepsSlot ==
  [][/\ storageFails => storage' = storage
     /\ (storageFails /\ ev' \in {"dispatch", "reset"}) =>
          /\ \A a \in Toggles \ {"reader"} :
               ClickToggle(a) => prefs' = [prefs EXCEPT ![FieldOf(a)] = ~@]
          /\ \A m \in ContrastKeys :
               ClickContrast(m) => prefs' = [prefs EXCEPT !.contrast = m]
          /\ ClickReader => prefs' = [prefs EXCEPT !.readerEnabled = ~@]
          /\ ClickFontInc => prefs' = [prefs EXCEPT !.fontScale = @ + 1]
          /\ ClickFontDec => prefs' = [prefs EXCEPT !.fontScale = @ - 1]
          /\ ClickReset => prefs' = defaults
          /\ html' = applyAll(html, prefs')
          /\ readerActive' = prefs'.readerEnabled
          /\ \A a \in Toggles :
               elems'.panel.toggles[a] = buildToggle(prefs'[FieldOf(a)])
          /\ \A k \in ContrastKeys :
               elems'.panel.contrast[k].isActive = (prefs'.contrast = k)
          /\ elems'.panel.fontVal = fontLabel(prefs'.fontScale)]_vars

\* a dispatch has changed the record and the root while the slot, absent at
\* page load, is still absent
C22_Witness ==
  /\ storageFails
  /\ ev = "dispatch"
  /\ storage = NoItem
  /\ prefs.spacing /\ prefs.contrast = "high" /\ prefs.fontScale = 1
  /\ "a11y-spacing" \in html.classList
  /\ elems.panel.toggles["spacing"].label = "Activado"

\* C23: without the speech service no utterance is ever submitted, at page
\* load, by a dispatch, by a focus event or by a hover event, and a dispatch
\* of the reader toggle still negates readerEnabled, switches narration and
\* its listeners accordingly, patches the reader control and writes the new
\* record to the slot.
C23_MuteReaderStillToggles ==
  /\ (~hasSynth => synth = <<>>)
  /\ [][/\ ~hasSynth => synth' = <<>>
        /\ (~hasSynth /\ ClickReader /\ ev' = "dispatch") =>
             /\ prefs' = [prefs EXCEPT !.readerEnabled = ~@]
             /\ readerActive' = prefs'.readerEnabled
             /\ (docListeners' # <<>>) = prefs'.readerEnabled
             /\ elems'.panel.toggles["reader"] = buildToggle(prefs'.readerEnabled)
             /\ storage' = Stringify(prefs', Fields)
             /\ Merge(defaults, loadPrefs(storage')) = prefs']_vars

\* narration was switched on by a dispatch in a browser without the service:
\* the listeners are registered, the control reads Activado, the slot holds
\* the record, and nothing was submitted
C23_Witness ==
  /\ ~hasSynth
  /\ ev = "dispatch"
  /\ readerActive /\ prefs.readerEnabled
  /\ Len(docListeners) = 2
  /\ elems.panel.toggles["reader"].label = "Activado"
  /\ storage = Stringify(prefs, Fields)
  /\ synth = <<>>

\* C24: within a page session the record and the slot change only on a step
\* that dispatches a panel action (a toggle, reader, contrast, a font step,
\* reset).  A click on the floating button or on the close control, the
\* Escape key, a focus or hover event, the end of an utterance, an animation
\* frame (which runs the callback of announce) and a transitionend event
\* leave both as they were; so does a click the handler does not act on.
C24_OnlyDispatchWrites ==
  [][/\ (prefs' # prefs \/ storage' # storage) => ev' \in {"dispatch", "reset"}
     /\ (\/ ClickFab
         \/ KeyEscape
         \/ ClickClose
         \/ \E t \in Targets : Focus(t)
         \/ \E t \in Targets : Hover(t)
         \/ SpeechEnd
         \/ Frame
         \/ TransitionEnd) => (prefs' = prefs /\ storage' = storage)]_vars

\* a frame has run the callback of the announce of a reset, after dispatches
\* had written a record to the slot: the slot still holds the record of the
\* reset
C24_Witness ==
  /\ ev = "step"
  /\ areaText = ResetMessage
  /\ frames = <<>>
  /\ storage = Stringify(defaults, Fields)
  /\ prefs = defaults

\* C25: while narration is active, a focus event on a heading, link, button,
\* selector or input field, and a hover event whose nearest narrated element
\* is one of these, leaves as the submitted utterance the category prefix of
\* the element followed by its computed label.
C25_PrefixOnFocusAndHover ==
  [][\A t \in Targets :
       /\ (readerActive /\ Focus(t) /\ Prefix(Document[t]) # ""
              /\ getLabel(Document[t]) # "") =>
            synth' = <<Prefix(Document[t]) \o getLabel(Document[t])>>
       /\ (readerActive /\ Hover(t) /\ closest(t) # NoElement) =>
            LET el == Document[closest(t)]
            IN (Prefix(el) # "" /\ getLabel(el) # "") =>
                 synth' = <<Prefix(el) \o getLabel(el)>>]_vars

\* C26: every announce call on an existing polite region (a cart click, a
\* reset) empties the region and leaves its message as the last text a
\* pending frame callback will set; the frame sets the region to the message
\* of the last call and leaves nothing pending; no other event changes the
\* text.  Pending callbacks do run, and after a reset the region comes to
\* hold the confirmation message unless a cart announce or a page load comes
\* first.  Without the region a reset and a cart click change no text and
\* queue no callback.
C26_LastMessageWins ==
  /\ [](~hasArea => (areaText = "" /\ \A i \in 1..Len(frames) : frames[i].f # "setText"))
  /\ [][LET texts(fr) == SelectSeq(fr, LAMBDA x : x.f = "setText")
        IN /\ \A name \in Products :
                (hasArea /\ CartClick(name)) =>
                  /\ areaText' = ""
                  /\ texts(frames')[Len(texts(frames'))].msg = CartMessage(name)
           /\ (hasArea /\ ev' = "reset") =>
                /\ areaText' = ""
                /\ texts(frames')[Len(texts(frames'))].msg = ResetMessage
           /\ Frame =>
                /\ frames' = <<>>
                /\ areaText' = IF texts(frames) = <<>> THEN areaText
                               ELSE texts(frames)[Len(texts(frames))].msg
           /\ (areaText' # areaText) =>
                (ev' \in {"reset", "cart", "load"} \/ Frame)]_vars
  /\ (frames # <<>>) ~> (frames = <<>>)
  /\ (hasArea /\ ev = "reset") ~> (areaText = ResetMessage \/ ev \in {"cart", "load"})

\* a cart click and then a reset have announced, the frames have run, and
\* the region holds the message of the reset
C26_Witness ==
  /\ hasArea
  /\ cart.count = "2"
  /\ prefs = defaults
  /\ frames = <<>>
  /\ areaText = ResetMessage

\* C27: each click on an add-to-cart button raises the displayed count by
\* exactly one, and the label of the cart button states the new count.
C27_OnePerClick ==
  [][\A name \in Products :
       CartClick(name) =>
         /\ ParseInt(cart'.count) = ParseInt(cart.count) + 1
         /\ cart'.label = addToCart(cart).label]_vars

\* C28: a click on the menu button while the menu is closed leaves it open
\* with aria-expanded "true", a click while it is open leaves it closed with
\* aria-expanded "false", and in every state aria-expanded tells whether the
\* menu is open.
C28_MenuClickToggles ==
  /\ [](menu.expanded = BoolStr(menu.isOpen))
  /\ [][MenuClick =>
          /\ menu'.isOpen = ~menu.isOpen
          /\ menu'.expanded = BoolStr(~menu.isOpen)]_vars

====
